---------------------------- MODULE Spec2Model ----------------------------
(***************************************************************************)
(* The bootstrap and lifecycle core of the firefly-karmada-manager:        *)
(* Run, the run closure of one leadership epoch, CreateControllerContext,  *)
(* StartControllers, leaderElectAndRun and createInitializersFunc.         *)
(*                                                                         *)
(* One or more processes execute Run with the same configuration.  They    *)
(* interact only through the two lease records (main, migration).  Each    *)
(* process has a main goroutine (pc), one leader-election goroutine per    *)
(* lock (election) and one run closure per lock (epoch).  A process that   *)
(* terminates loses its whole memory: its variables go back to their       *)
(* initial values and only pc, exitCode and leadCount remain.              *)
(***************************************************************************)
EXTENDS Naturals, FiniteSets, Sequences

\* ------------------------------------------------------------- bounds
\* Number of processes contending for the leases.
NumProcs == 2
\* Number of entries of the controller registry that are modelled.
MaxControllers == 3

Procs == 1..NumProcs

\* ---------------------------------------------------- program constants
\* The names NewControllerInitializers registers.
KnownControllerNames == <<"estimator", "node", "foo", "kubean">>

Min(a, b) == IF a < b THEN a ELSE b

\* NewControllerInitializers(): the registry (its first MaxControllers entries).
NewControllerInitializers ==
    {KnownControllerNames[i] : i \in 1..Min(MaxControllers, Len(KnownControllerNames))}

NoName == "-"

\* The informer factories of a ControllerContext, in the order run starts them.
InformerFactories ==
    <<"KarmadaDynamicInformerFactory", "KarmadaKubeInformerFactory",
      "KarmadaInformerFactory", "KarmadaFireflyInformerFactory",
      "FireflyDynamicInformerFactory", "FireflyKubeInformerFactory",
      "FireflyInformerFactory", "ObjectOrMetadataInformerFactory">>

Locks == {"main", "migration"}

\* leadermigration.FilterResult
ControllerUnowned == "ControllerUnowned"
ControllerNonMigrated == "ControllerNonMigrated"
ControllerMigrated == "ControllerMigrated"
FilterResults == {ControllerUnowned, ControllerNonMigrated, ControllerMigrated}

\* ------------------------------------------------- initializer results
\* controller.Interface values an InitFunc can return: nil, or a controller
\* with or without the optional capabilities Debuggable (DebuggingHandler() nil
\* or not) and HealthCheckable (HealthChecker() nil or not).
NilController == [isNil |-> TRUE, dbg |-> "absent", hc |-> "absent"]
Controllers ==
    {NilController} \cup
    [isNil : {FALSE}, dbg : {"absent", "nilHandler", "handler"},
     hc : {"absent", "nilChecker", "checker"}]

NoError == "nil"
InitErrors == {"errA", "errB"}

\* (controller, enabled, err) triples of InitFunc.
InitResults == [ctrl : Controllers, started : BOOLEAN, err : {NoError} \cup InitErrors]

\* Errors of CreateControllerContext, by the step that fails.
ContextErrors == {"waitKarmadaAPIServer", "waitFireflyAPIServer",
                  "karmadaDiscovery", "hostClusterDiscovery"}

\* The leader-election watchdog check of Run.
ElectionChecker == [name |-> "leaderElection", kind |-> "watchdog"]

VARIABLES
    cfg,            \* the CompletedConfig, and the results the initializers can return
    holder,         \* lease record of each lock: the set of its holders (one at most)
    pc,             \* position of Run's goroutine in each process
    exitCode,       \* exit code of a terminated process (0 while it runs)
    stopCh,         \* whether the process-wide stop channel is closed
    migrationReady, \* whether leaderMigrator.MigrationReady is closed
    healthz,        \* checks held by healthzHandler
    mux,            \* names with a debug handler mounted on unsecuredMux
    election,       \* state of leaderElectAndRun per lock
    leadCount,      \* how many times OnStartedLeading fired per lock
    epoch,          \* state of the run closure per lock
    call            \* one call of a function examined on its own: arguments, result

vars == <<cfg, call, holder, pc, exitCode, stopCh, migrationReady, healthz, mux,
          election, leadCount, epoch>>

\* No function is examined on its own.
NoCall == [fn |-> "none"]

\* The run closure before it is called.
IdleEpoch ==
    [phase |-> "idle", ctxErr |-> NoError, initializers |-> {}, pending |-> {},
     cur |-> NoName, checks |-> {}, result |-> "none",
     started |-> {}, initErr |-> NoError, factories |-> 0, gateCloses |-> 0]

Alive(p) == pc[p] \in {"gate", "waitStop", "direct"}


\* ------------------------------------------------------ configuration
\* leadermigration.Enabled(&c.ComponentConfig.Generic): leaderMigrator is
\* non-nil if and only if leader migration is enabled.
LeaderMigratorEnabled == cfg.leaderMigration

\* Mutant: the policy is not consulted.
IsControllerEnabledAlways(name) == TRUE

\* ControllerContext.IsControllerEnabled: the enablement policy of the
\* configuration, by name.
IsControllerEnabled(name) == name \notin cfg.disabled

\* Mutant: the filter's result is not compared with expected.
createInitializersFuncAnyOwned(filterFunc, expected) ==
    {name \in NewControllerInitializers : filterFunc[name] # ControllerUnowned}

\* Mutant: every filtered map is compared with ControllerNonMigrated.
createInitializersFuncNonMigratedOnly(filterFunc, expected) ==
    {name \in NewControllerInitializers : filterFunc[name] = ControllerNonMigrated}

\* createInitializersFunc(filterFunc, expected)(): the registry entries that
\* filterFunc tags expected.
createInitializersFunc(filterFunc, expected) ==
    {name \in NewControllerInitializers : filterFunc[name] = expected}

\* The initializersFunc the OnStartedLeading callback of lock l hands to run.
InitializersFuncOf(l) ==
    IF l = "main"
    THEN IF LeaderMigratorEnabled
         THEN createInitializersFunc(cfg.filter, ControllerNonMigrated)
         ELSE NewControllerInitializers
    ELSE createInitializersFunc(cfg.filter, ControllerMigrated)

\* ------------------------------------------------- process termination
\* The process ends (os.Exit, or Run returns to main): its memory is gone.
Terminate(p, how, code) ==
    /\ pc' = [pc EXCEPT ![p] = how]
    /\ exitCode' = [exitCode EXCEPT ![p] = code]
    /\ stopCh' = [stopCh EXCEPT ![p] = FALSE]
    /\ migrationReady' = [migrationReady EXCEPT ![p] = FALSE]
    /\ healthz' = [healthz EXCEPT ![p] = {}]
    /\ mux' = [mux EXCEPT ![p] = {}]
    /\ election' = [election EXCEPT ![p] = [l \in Locks |-> "none"]]
    /\ epoch' = [epoch EXCEPT ![p] = [l \in Locks |-> IdleEpoch]]

\* klog.Fatalf
Fatalf(p) == Terminate(p, "exited", 255)

\* ------------------------------------------------------------------ Run
\* Mutant: the watchdog check is created whether or not LeaderElect is set.
RunStartAlwaysWatchdog(p) ==
    /\ pc[p] = "init"
    /\ \E serveErr \in IF cfg.secureServing THEN BOOLEAN ELSE {FALSE},
          hostnameErr \in IF cfg.leaderElect THEN BOOLEAN ELSE {FALSE} :
         IF serveErr \/ hostnameErr
         THEN /\ Terminate(p, "returned", 1)
              /\ UNCHANGED <<cfg, call, holder, leadCount>>
         ELSE /\ healthz' = [healthz EXCEPT ![p] = {ElectionChecker}]
              /\ IF cfg.leaderElect
                 THEN /\ pc' = [pc EXCEPT ![p] = "gate"]
                      /\ election' = [election EXCEPT ![p]["main"] = "unacquired"]
                      /\ UNCHANGED epoch
                 ELSE /\ pc' = [pc EXCEPT ![p] = "direct"]
                      /\ epoch' = [epoch EXCEPT ![p]["main"].phase = "create"]
                      /\ UNCHANGED election
              /\ UNCHANGED <<cfg, call, holder, exitCode, stopCh, migrationReady, mux,
                             leadCount>>

\* Run up to the start of the main lock (or of run, without leader election).
RunStart(p) ==
    /\ pc[p] = "init"
    /\ \E serveErr \in IF cfg.secureServing THEN BOOLEAN ELSE {FALSE},
          hostnameErr \in IF cfg.leaderElect THEN BOOLEAN ELSE {FALSE} :
         IF serveErr \/ hostnameErr
         THEN /\ Terminate(p, "returned", 1)
              /\ UNCHANGED <<cfg, call, holder, leadCount>>
         ELSE /\ healthz' = [healthz EXCEPT
                    ![p] = IF cfg.leaderElect THEN {ElectionChecker} ELSE {}]
              /\ IF cfg.leaderElect
                 THEN /\ pc' = [pc EXCEPT ![p] = "gate"]
                      /\ election' = [election EXCEPT ![p]["main"] = "unacquired"]
                      /\ UNCHANGED epoch
                 ELSE /\ pc' = [pc EXCEPT ![p] = "direct"]
                      /\ epoch' = [epoch EXCEPT ![p]["main"].phase = "create"]
                      /\ UNCHANGED election
              /\ UNCHANGED <<cfg, call, holder, exitCode, stopCh, migrationReady, mux,
                             leadCount>>

\* Mutant: the receive from MigrationReady is left out.
MigrationGateNotAwaited(p) == TRUE

\* <-leaderMigrator.MigrationReady, when leaderMigrator != nil.
MigrationGateOpen(p) == LeaderMigratorEnabled => migrationReady[p]

\* Mutant: the migration lock is started without waiting for the main lock.
RunMigrationLockAtOnce(p) ==
    /\ pc[p] = "gate"
    /\ pc' = [pc EXCEPT ![p] = "waitStop"]
    /\ election' = [election EXCEPT ![p]["migration"] =
                        IF LeaderMigratorEnabled THEN "unacquired" ELSE "none"]
    /\ UNCHANGED <<cfg, call, holder, exitCode, stopCh, migrationReady, healthz, mux,
                   leadCount, epoch>>

\* "If Leader Migration is enabled, proceed to attempt the migration lock."
RunMigrationLock(p) ==
    /\ pc[p] = "gate"
    /\ MigrationGateOpen(p)
    /\ pc' = [pc EXCEPT ![p] = "waitStop"]
    /\ election' = [election EXCEPT ![p]["migration"] =
                        IF LeaderMigratorEnabled THEN "unacquired" ELSE "none"]
    /\ UNCHANGED <<cfg, call, holder, exitCode, stopCh, migrationReady, healthz, mux,
                   leadCount, epoch>>

\* <-stopCh; return nil
RunReturn(p) ==
    /\ pc[p] = "waitStop"
    /\ stopCh[p]
    /\ Terminate(p, "returned", 0)
    /\ UNCHANGED <<cfg, call, holder, leadCount>>

\* Without leader election: run returns when ctx (stopCh) is done, Run returns nil.
RunDirectReturn(p) ==
    /\ pc[p] = "direct"
    /\ epoch[p]["main"].phase = "blocked"
    /\ stopCh[p]
    /\ Terminate(p, "returned", 0)
    /\ UNCHANGED <<cfg, call, holder, leadCount>>

\* The caller of Run closes stopCh.
Stop(p) ==
    /\ Alive(p)
    /\ ~stopCh[p]
    /\ stopCh' = [stopCh EXCEPT ![p] = TRUE]
    /\ UNCHANGED <<cfg, call, holder, pc, exitCode, migrationReady, healthz, mux,
                   election, leadCount, epoch>>

\* ---------------------------------------------------- leaderElectAndRun
\* leaderelection.RunOrDie acquires the lease and fires OnStartedLeading,
\* which calls run.
Acquire(p, l) ==
    /\ Alive(p)
    /\ election[p][l] = "unacquired"
    /\ holder[l] = {}
    /\ holder' = [holder EXCEPT ![l] = {p}]
    /\ election' = [election EXCEPT ![p][l] = "leading"]
    /\ leadCount' = [leadCount EXCEPT ![p][l] = @ + 1]
    /\ epoch' = [epoch EXCEPT ![p][l].phase = "create"]
    /\ UNCHANGED <<cfg, call, pc, exitCode, stopCh, migrationReady, healthz, mux>>

\* Mutant: OnStoppedLeading logs and the election of the lock is entered again.
OnStoppedLeadingRetry(p, l) ==
    /\ election' = [election EXCEPT ![p][l] = "unacquired"]
    /\ epoch' = [epoch EXCEPT ![p][l] = IdleEpoch]
    /\ UNCHANGED <<pc, exitCode, stopCh, migrationReady, healthz, mux, leadCount>>

\* OnStoppedLeading: klog.FlushAndExit(klog.ExitFlushTimeout, 1)
OnStoppedLeading(p, l) ==
    /\ Terminate(p, "exited", 1)
    /\ UNCHANGED leadCount

\* The lease cannot be renewed: RunOrDie fires OnStoppedLeading.
LoseLeadership(p, l) ==
    /\ Alive(p)
    /\ election[p][l] = "leading"
    /\ OnStoppedLeading(p, l)
    /\ UNCHANGED <<cfg, call, holder>>

\* The lease of a terminated holder expires.
LeaseExpire(l) ==
    /\ holder[l] # {}
    /\ \A p \in holder[l] : ~Alive(p)
    /\ holder' = [holder EXCEPT ![l] = {}]
    /\ UNCHANGED <<cfg, call, pc, exitCode, stopCh, migrationReady, healthz, mux,
                   election, leadCount, epoch>>

\* ---------------------------------------------------- GetAvailableResources
\* Largest number of APIResourceLists a discovery call returns.
MaxLists == 2

\* GroupVersion strings, as their parts between the "/"s: "v1", "apps/v1" and
\* the malformed "apps/v1/beta".
GroupVersionStrings == {<<"v1">>, <<"apps", "v1">>, <<"apps", "v1", "beta">>}

ResourceNames == {"pods", "deployments"}

\* metav1.APIResourceList
APIResourceLists == [GroupVersion : GroupVersionStrings, APIResources : SUBSET ResourceNames]

\* What client.ServerGroupsAndResources() returns: the resource lists and an
\* error (nil, or the error of the groups that could not be discovered).
DiscoveryResults ==
    [resourceMap : UNION {[1..n -> APIResourceLists] : n \in 0..MaxLists},
     err : {NoError, "groupDiscoveryFailed"}]

\* schema.ParseGroupVersion: a string with more than one "/" is an error.
ParseGroupVersion(gv) ==
    IF Len(gv) > 2
    THEN [err |-> "unexpectedGroupVersion", Group |-> "", Version |-> ""]
    ELSE IF Len(gv) = 2
    THEN [err |-> NoError, Group |-> gv[1], Version |-> gv[2]]
    ELSE [err |-> NoError, Group |-> "", Version |-> gv[1]]

\* The loop of GetAvailableResources over resourceMap from index i on, with
\* allResources collected so far: the first parse error is returned.
RECURSIVE CollectResources(_, _, _)
CollectResources(resourceMap, i, allResources) ==
    IF i > Len(resourceMap)
    THEN [allResources |-> allResources, err |-> NoError]
    ELSE LET version == ParseGroupVersion(resourceMap[i].GroupVersion)
         IN  IF version.err # NoError
             THEN [allResources |-> {}, err |-> version.err]
             ELSE CollectResources(resourceMap, i + 1,
                      allResources \cup
                          {[Group |-> version.Group, Version |-> version.Version,
                            Resource |-> name] :
                              name \in resourceMap[i].APIResources})

\* Mutant: an error of the discovery call is returned, not only logged.
GetAvailableResourcesStrict(client) ==
    IF client.err # NoError
    THEN [allResources |-> {}, err |-> client.err, logged |-> FALSE]
    ELSE IF Len(client.resourceMap) = 0
    THEN [allResources |-> {}, err |-> "noResources", logged |-> FALSE]
    ELSE LET r == CollectResources(client.resourceMap, 1, {})
         IN  [allResources |-> r.allResources, err |-> r.err, logged |-> FALSE]

\* GetAvailableResources(client): (allResources, err), and whether
\* utilruntime.HandleError logged the discovery error.
GetAvailableResources(client) ==
    IF Len(client.resourceMap) = 0
    THEN [allResources |-> {}, err |-> "noResources", logged |-> client.err # NoError]
    ELSE LET r == CollectResources(client.resourceMap, 1, {})
         IN  [allResources |-> r.allResources, err |-> r.err,
              logged |-> client.err # NoError]

\* ------------------------------------------------ CreateControllerContext
\* The steps of CreateControllerContext, in the order of the code: the karmada
\* clients and informer factories, the wait for the karmada API server, the
\* firefly clients and informer factories, the wait for the firefly API
\* server, the REST mapper and its reset loop, the two discovery calls and the
\* ControllerContext literal.
ContextSteps ==
    <<"karmadaInformers", "waitKarmadaAPIServer", "fireflyInformers",
      "waitFireflyAPIServer", "restMapper", "karmadaDiscovery",
      "hostClusterDiscovery", "context">>

\* ControllerContext{}
EmptyContext ==
    [factories |-> {}, RESTMapper |-> FALSE, AvailableResources |-> {},
     HostClusterAvailableResources |-> {}, InformersStarted |-> "nil"]

\* The results of the discovery client that CreateControllerContext is
\* examined with: no list or one list with all resources, with or without a
\* discovery error.
DiscoverySamples ==
    {d \in DiscoveryResults :
        /\ Len(d.resourceMap) <= 1
        /\ \A i \in 1..Len(d.resourceMap) : d.resourceMap[i].APIResources = ResourceNames}

\* What the API servers answer during one CreateControllerContext: whether
\* each WaitForAPIServer succeeds, and the result of each discovery client.
ContextEnvs ==
    [waitKarmada : BOOLEAN, waitFirefly : BOOLEAN,
     karmada : DiscoverySamples, host : DiscoverySamples]

\* Mutant: a failed karmada discovery is returned after the discovery of the
\* host cluster was made as well.
ControllerContextOfLateReturn(env) ==
    LET availableResources == GetAvailableResources(env.karmada)
        hostClusterAvailableResources == GetAvailableResources(env.host)
    IN  IF ~env.waitKarmada
        THEN [ctx |-> EmptyContext, err |-> "waitKarmadaAPIServer", cause |-> "timeout",
              steps |-> SubSeq(ContextSteps, 1, 2)]
        ELSE IF ~env.waitFirefly
        THEN [ctx |-> EmptyContext, err |-> "waitFireflyAPIServer", cause |-> "timeout",
              steps |-> SubSeq(ContextSteps, 1, 4)]
        ELSE IF availableResources.err # NoError
        THEN [ctx |-> EmptyContext, err |-> "karmadaDiscovery",
              cause |-> availableResources.err, steps |-> SubSeq(ContextSteps, 1, 7)]
        ELSE IF hostClusterAvailableResources.err # NoError
        THEN [ctx |-> EmptyContext, err |-> "hostClusterDiscovery",
              cause |-> hostClusterAvailableResources.err,
              steps |-> SubSeq(ContextSteps, 1, 7)]
        ELSE [ctx |-> [factories |-> {InformerFactories[i] : i \in 1..Len(InformerFactories)},
                       RESTMapper |-> TRUE,
                       AvailableResources |-> availableResources.allResources,
                       HostClusterAvailableResources |->
                           hostClusterAvailableResources.allResources,
                       InformersStarted |-> "open"],
              err |-> NoError, cause |-> NoError, steps |-> ContextSteps]

\* CreateControllerContext(s, karmadaClientBuilder, fireflyKubeClientBuilder,
\* stop) in the environment env: the (ControllerContext, error) it returns,
\* err naming the step that failed and cause its error, and the steps it
\* executed.
ControllerContextOf(env) ==
    IF ~env.waitKarmada
    THEN [ctx |-> EmptyContext, err |-> "waitKarmadaAPIServer", cause |-> "timeout",
          steps |-> SubSeq(ContextSteps, 1, 2)]
    ELSE IF ~env.waitFirefly
    THEN [ctx |-> EmptyContext, err |-> "waitFireflyAPIServer", cause |-> "timeout",
          steps |-> SubSeq(ContextSteps, 1, 4)]
    ELSE LET availableResources == GetAvailableResources(env.karmada)
         IN  IF availableResources.err # NoError
             THEN [ctx |-> EmptyContext, err |-> "karmadaDiscovery",
                   cause |-> availableResources.err,
                   steps |-> SubSeq(ContextSteps, 1, 6)]
             ELSE LET hostClusterAvailableResources == GetAvailableResources(env.host)
                  IN  IF hostClusterAvailableResources.err # NoError
                      THEN [ctx |-> EmptyContext, err |-> "hostClusterDiscovery",
                            cause |-> hostClusterAvailableResources.err,
                            steps |-> SubSeq(ContextSteps, 1, 7)]
                      ELSE [ctx |-> [factories |-> {InformerFactories[i] :
                                                       i \in 1..Len(InformerFactories)},
                                     RESTMapper |-> TRUE,
                                     AvailableResources |->
                                         availableResources.allResources,
                                     HostClusterAvailableResources |->
                                         hostClusterAvailableResources.allResources,
                                     InformersStarted |-> "open"],
                            err |-> NoError, cause |-> NoError,
                            steps |-> ContextSteps]

\* ------------------------------------------------------ the run closure
\* CreateControllerContext: the clients and factories are built, both API
\* servers are waited for, the REST-mapper reset loop is started and the two
\* discovery calls are made; the first failing step ends the construction.
CreateControllerContext(p, l) ==
    /\ Alive(p)
    /\ epoch[p][l].phase = "create"
    /\ \E env \in ContextEnvs :
         epoch' = [epoch EXCEPT ![p][l].phase = "created",
                                ![p][l].ctxErr = ControllerContextOf(env).err]
    /\ UNCHANGED <<cfg, call, holder, pc, exitCode, stopCh, migrationReady, healthz,
                   mux, election, leadCount>>

\* run: a context error is fatal; otherwise controllerInitializers :=
\* initializersFunc() and StartControllers is called with it.
RunStartControllers(p, l) ==
    /\ Alive(p)
    /\ epoch[p][l].phase = "created"
    /\ IF epoch[p][l].ctxErr # NoError
       THEN /\ Fatalf(p)
            /\ UNCHANGED <<cfg, call, holder, leadCount>>
       ELSE /\ epoch' = [epoch EXCEPT ![p][l].phase = "loop",
                                      ![p][l].initializers = InitializersFuncOf(l),
                                      ![p][l].pending = InitializersFuncOf(l)]
            /\ UNCHANGED <<cfg, call, holder, pc, exitCode, stopCh, migrationReady,
                           healthz, mux, election, leadCount>>

\* ----------------------------------------------------- StartControllers
\* Mutant: the initializer is invoked without the start-interval sleep.
StartControllersNextNoSleep(p, l) ==
    /\ Alive(p)
    /\ epoch[p][l].phase = "loop"
    /\ \E name \in epoch[p][l].pending :
         epoch' = [epoch EXCEPT
            ![p][l].pending = @ \ {name},
            ![p][l].phase = IF IsControllerEnabled(name) THEN "running" ELSE "loop",
            ![p][l].cur = IF IsControllerEnabled(name) THEN name ELSE NoName]
    /\ UNCHANGED <<cfg, call, holder, pc, exitCode, stopCh, migrationReady, healthz,
                   mux, election, leadCount>>

\* The next entry of the range over the map, in any order: a disabled
\* controller is skipped, for an enabled one the jittered sleep begins.
StartControllersNext(p, l) ==
    /\ Alive(p)
    /\ epoch[p][l].phase = "loop"
    /\ \E name \in epoch[p][l].pending :
         epoch' = [epoch EXCEPT
            ![p][l].pending = @ \ {name},
            ![p][l].phase = IF IsControllerEnabled(name) THEN "sleep" ELSE "loop",
            ![p][l].cur = IF IsControllerEnabled(name) THEN name ELSE NoName]
    /\ UNCHANGED <<cfg, call, holder, pc, exitCode, stopCh, migrationReady, healthz,
                   mux, election, leadCount>>

\* time.Sleep returns and initFn(ctx, controllerCtx) is called.
StartControllersInvoke(p, l) ==
    /\ Alive(p)
    /\ epoch[p][l].phase = "sleep"
    /\ epoch' = [epoch EXCEPT ![p][l].phase = "running"]
    /\ UNCHANGED <<cfg, call, holder, pc, exitCode, stopCh, migrationReady, healthz,
                   mux, election, leadCount>>

\* Mutant: the check of a nil (anonymous) controller is registered under no name.
ControllerCheckAnonymous(name, ctrl) ==
    IF ~ctrl.isNil /\ ctrl.hc = "checker"
    THEN [name |-> name, kind |-> "real"]
    ELSE [name |-> IF ctrl.isNil THEN NoName ELSE name, kind |-> "ping"]

\* Mutant: the HealthCheckable test is nested in the Debuggable branch.
ControllerCheckDebuggableOnly(name, ctrl) ==
    IF ~ctrl.isNil /\ ctrl.dbg # "absent" /\ ctrl.hc = "checker"
    THEN [name |-> name, kind |-> "real"]
    ELSE [name |-> name, kind |-> "ping"]

\* The check registered for a started controller: its own probe when it is
\* non-nil, HealthCheckable and HealthChecker() is non-nil, else the ping.
ControllerCheck(name, ctrl) ==
    IF ~ctrl.isNil /\ ctrl.hc = "checker"
    THEN [name |-> name, kind |-> "real"]
    ELSE [name |-> name, kind |-> "ping"]

\* Mutant: the handler DebuggingHandler() returns is mounted without the nil
\* test.
MountsDebugHandlerUntested(ctrl) ==
    ~ctrl.isNil /\ ctrl.dbg # "absent" /\ cfg.secureServing

\* Whether the debug handler of ctrl is mounted on unsecuredMux.
MountsDebugHandler(ctrl) ==
    ~ctrl.isNil /\ ctrl.dbg = "handler" /\ cfg.secureServing

\* Mutant: an initializer's error is logged and the loop goes on.
HandleInitResultContinue(e, name, r) ==
    IF r.err # NoError \/ ~r.started
    THEN [e EXCEPT !.phase = "loop", !.cur = NoName]
    ELSE [e EXCEPT !.phase = "loop", !.cur = NoName,
                   !.checks = @ \cup {ControllerCheck(name, r.ctrl)}]

\* Mutant: the check is appended inside "if ctrl != nil".
HandleInitResultNilUnchecked(e, name, r) ==
    IF r.err # NoError
    THEN [e EXCEPT !.phase = "screturned", !.result = r.err]
    ELSE IF ~r.started \/ r.ctrl.isNil
    THEN [e EXCEPT !.phase = "loop", !.cur = NoName]
    ELSE [e EXCEPT !.phase = "loop", !.cur = NoName,
                   !.checks = @ \cup {ControllerCheck(name, r.ctrl)}]

\* What StartControllers does with the result r of the initializer of name.
HandleInitResult(e, name, r) ==
    IF r.err # NoError
    THEN [e EXCEPT !.phase = "screturned", !.result = r.err]
    ELSE IF ~r.started
    THEN [e EXCEPT !.phase = "loop", !.cur = NoName]
    ELSE [e EXCEPT !.phase = "loop", !.cur = NoName,
                   !.checks = @ \cup {ControllerCheck(name, r.ctrl)}]

\* What the initializer returned, kept for the properties: started holds the
\* controllers whose initializer returned started = true and no error, initErr
\* the first non-nil error an initializer returned.
RecordInitResult(e, name, r) ==
    [e EXCEPT !.started = IF r.err = NoError /\ r.started THEN @ \cup {name} ELSE @,
              !.initErr = IF @ = NoError THEN r.err ELSE @]

\* Mutant: on an initializer's error the checks accumulated so far are
\* registered before the error is returned.
StartControllersReturnFlush(p, l) ==
    /\ Alive(p)
    /\ epoch[p][l].phase = "running"
    /\ \E r \in cfg.initResults :
         /\ epoch' = [epoch EXCEPT
                ![p][l] = RecordInitResult(
                              HandleInitResult(@, epoch[p][l].cur, r),
                              epoch[p][l].cur, r)]
         /\ mux' = [mux EXCEPT ![p] =
                IF r.err = NoError /\ r.started /\ MountsDebugHandler(r.ctrl)
                THEN @ \cup {epoch[p][l].cur} ELSE @]
         /\ healthz' = [healthz EXCEPT ![p] =
                IF r.err # NoError THEN @ \cup epoch[p][l].checks ELSE @]
    /\ UNCHANGED <<cfg, call, holder, pc, exitCode, stopCh, migrationReady,
                   election, leadCount>>

\* initFn returns (ctrl, started, err).
StartControllersReturn(p, l) ==
    /\ Alive(p)
    /\ epoch[p][l].phase = "running"
    /\ \E r \in cfg.initResults :
         /\ epoch' = [epoch EXCEPT
                ![p][l] = RecordInitResult(
                              HandleInitResult(@, epoch[p][l].cur, r),
                              epoch[p][l].cur, r)]
         /\ mux' = [mux EXCEPT ![p] =
                IF r.err = NoError /\ r.started /\ MountsDebugHandler(r.ctrl)
                THEN @ \cup {epoch[p][l].cur} ELSE @]
    /\ UNCHANGED <<cfg, call, holder, pc, exitCode, stopCh, migrationReady, healthz,
                   election, leadCount>>

\* Mutant: each check is registered by an AddHealthChecker call of its own.
StartControllersFinishOneByOne(p, l) ==
    /\ Alive(p)
    /\ epoch[p][l].phase = "loop"
    /\ epoch[p][l].pending = {}
    /\ IF epoch[p][l].checks \subseteq healthz[p]
       THEN /\ epoch' = [epoch EXCEPT ![p][l].phase = "screturned",
                                      ![p][l].result = NoError]
            /\ UNCHANGED healthz
       ELSE /\ \E c \in epoch[p][l].checks \ healthz[p] :
                 healthz' = [healthz EXCEPT ![p] = @ \cup {c}]
            /\ UNCHANGED epoch
    /\ UNCHANGED <<cfg, call, holder, pc, exitCode, stopCh, migrationReady, mux,
                   election, leadCount>>

\* healthzHandler.AddHealthChecker(controllerChecks...); return nil
StartControllersFinish(p, l) ==
    /\ Alive(p)
    /\ epoch[p][l].phase = "loop"
    /\ epoch[p][l].pending = {}
    /\ healthz' = [healthz EXCEPT ![p] = @ \cup epoch[p][l].checks]
    /\ epoch' = [epoch EXCEPT ![p][l].phase = "screturned", ![p][l].result = NoError]
    /\ UNCHANGED <<cfg, call, holder, pc, exitCode, stopCh, migrationReady, mux,
                   election, leadCount>>

\* Mutant: an error of StartControllers is logged and run goes on.
RunAfterStartControllersLogOnly(p, l) ==
    /\ Alive(p)
    /\ epoch[p][l].phase = "screturned"
    /\ epoch' = [epoch EXCEPT ![p][l].phase = "informers"]
    /\ UNCHANGED <<cfg, call, holder, pc, exitCode, stopCh, migrationReady,
                   healthz, mux, election, leadCount>>

\* run: an error of StartControllers is fatal; otherwise the informer
\* factories are started next.
RunAfterStartControllers(p, l) ==
    /\ Alive(p)
    /\ epoch[p][l].phase = "screturned"
    /\ IF epoch[p][l].result # NoError
       THEN /\ Fatalf(p)
            /\ UNCHANGED <<cfg, call, holder, leadCount>>
       ELSE /\ epoch' = [epoch EXCEPT ![p][l].phase = "informers"]
            /\ UNCHANGED <<cfg, call, holder, pc, exitCode, stopCh, migrationReady,
                           healthz, mux, election, leadCount>>

\* Mutant: the factories are started while StartControllers still runs.
StartInformerFactoryEarly(p, l) ==
    /\ Alive(p)
    /\ epoch[p][l].phase \in {"loop", "informers"}
    /\ epoch[p][l].factories < Len(InformerFactories)
    /\ epoch' = [epoch EXCEPT ![p][l].factories = @ + 1]
    /\ UNCHANGED <<cfg, call, holder, pc, exitCode, stopCh, migrationReady, healthz,
                   mux, election, leadCount>>

\* run: the next informer factory's Start(stopCh).
StartInformerFactory(p, l) ==
    /\ Alive(p)
    /\ epoch[p][l].phase = "informers"
    /\ epoch[p][l].factories < Len(InformerFactories)
    /\ epoch' = [epoch EXCEPT ![p][l].factories = @ + 1]
    /\ UNCHANGED <<cfg, call, holder, pc, exitCode, stopCh, migrationReady, healthz,
                   mux, election, leadCount>>

\* Mutant: the gate is closed while StartControllers still runs.
CloseInformersStartedDuringStart(p, l) ==
    /\ Alive(p)
    /\ epoch[p][l].phase \in {"loop", "sleep", "running"}
    /\ epoch[p][l].gateCloses = 0
    /\ epoch' = [epoch EXCEPT ![p][l].gateCloses = @ + 1]
    /\ UNCHANGED <<cfg, call, holder, pc, exitCode, stopCh, migrationReady, healthz,
                   mux, election, leadCount>>

\* Mutant: the gate is closed before the informer factories are started.
CloseInformersStartedFirst(p, l) ==
    /\ Alive(p)
    /\ epoch[p][l].phase = "informers"
    /\ epoch[p][l].gateCloses = 0
    /\ epoch' = [epoch EXCEPT ![p][l].gateCloses = @ + 1]
    /\ UNCHANGED <<cfg, call, holder, pc, exitCode, stopCh, migrationReady, healthz,
                   mux, election, leadCount>>

\* run: close(controllerContext.InformersStarted), then <-ctx.Done().
CloseInformersStarted(p, l) ==
    /\ Alive(p)
    /\ epoch[p][l].phase = "informers"
    /\ epoch[p][l].factories = Len(InformerFactories)
    /\ epoch' = [epoch EXCEPT ![p][l].gateCloses = @ + 1,
                              ![p][l].phase = "blocked"]
    /\ UNCHANGED <<cfg, call, holder, pc, exitCode, stopCh, migrationReady, healthz,
                   mux, election, leadCount>>

\* ------------------------------------------------------- specification
\* The configurations: leader election off, on, and on with leader migration.
Modes == {<<FALSE, FALSE>>, <<TRUE, FALSE>>, <<TRUE, TRUE>>}

AllNonMigrated == [name \in NewControllerInitializers |-> ControllerNonMigrated]

\* The initializers of the processes that contend for the leases return a nil
\* controller; every controller.Interface value is covered by SpecSC below.
BasicInitResults ==
    {r \in InitResults : /\ r.ctrl = NilController
                         /\ r.err \in {NoError, "errA"}
                         /\ r.err # NoError => ~r.started}

\* Spec draws the classification functions that are sorted along the registry
\* (every other one is one of these with the controllers renamed, and no code
\* of the model reads a name); SpecFilter draws all of them.
FilterRank(r) ==
    IF r = ControllerMigrated THEN 0 ELSE IF r = ControllerUnowned THEN 1 ELSE 2

SortedFilters ==
    {f \in [NewControllerInitializers -> FilterResults] :
        \A i, j \in 1..Min(MaxControllers, Len(KnownControllerNames)) :
            i < j => FilterRank(f[KnownControllerNames[i]])
                        <= FilterRank(f[KnownControllerNames[j]])}

\* Spec draws two enablement policies, all enabled and the first controller
\* disabled; SpecSC draws every policy.
SmallPolicies == {{}, {KnownControllerNames[1]}}

\* With BasicInitResults nothing is mounted on unsecuredMux, so Spec draws
\* SecureServing nil only without leader election.
Configs ==
    {c \in [leaderElect : BOOLEAN, leaderMigration : BOOLEAN,
            secureServing : BOOLEAN, disabled : SmallPolicies,
            filter : SortedFilters, initResults : {BasicInitResults}] :
        /\ <<c.leaderElect, c.leaderMigration>> \in Modes
        /\ c.leaderElect => c.secureServing
        /\ ~c.leaderMigration => c.filter = AllNonMigrated}

\* Without leader election the processes do not interact: one is modelled.
Launched(c) == IF c.leaderElect THEN Procs ELSE {1}

Init ==
    /\ cfg \in Configs
    /\ holder = [l \in Locks |-> {}]
    /\ pc = [p \in Procs |-> IF p \in Launched(cfg) THEN "init" ELSE "absent"]
    /\ exitCode = [p \in Procs |-> 0]
    /\ stopCh = [p \in Procs |-> FALSE]
    /\ migrationReady = [p \in Procs |-> FALSE]
    /\ healthz = [p \in Procs |-> {}]
    /\ mux = [p \in Procs |-> {}]
    /\ election = [p \in Procs |-> [l \in Locks |-> "none"]]
    /\ leadCount = [p \in Procs |-> [l \in Locks |-> 0]]
    /\ epoch = [p \in Procs |-> [l \in Locks |-> IdleEpoch]]
    /\ call = NoCall

Next ==
    \/ \E p \in Procs : RunStart(p)
    \/ \E p \in Procs : RunMigrationLock(p)
    \/ \E p \in Procs : RunReturn(p)
    \/ \E p \in Procs : RunDirectReturn(p)
    \/ \E p \in Procs : Stop(p)
    \/ \E p \in Procs, l \in Locks : Acquire(p, l)
    \/ \E p \in Procs, l \in Locks : LoseLeadership(p, l)
    \/ \E l \in Locks : LeaseExpire(l)
    \/ \E p \in Procs, l \in Locks : CreateControllerContext(p, l)
    \/ \E p \in Procs, l \in Locks : RunStartControllers(p, l)
    \/ \E p \in Procs, l \in Locks : StartControllersNext(p, l)
    \/ \E p \in Procs, l \in Locks : StartControllersInvoke(p, l)
    \/ \E p \in Procs, l \in Locks : StartControllersReturn(p, l)
    \/ \E p \in Procs, l \in Locks : StartControllersFinish(p, l)
    \/ \E p \in Procs, l \in Locks : RunAfterStartControllers(p, l)
    \/ \E p \in Procs, l \in Locks : StartInformerFactory(p, l)
    \/ \E p \in Procs, l \in Locks : CloseInformersStarted(p, l)

Spec == Init /\ [][Next]_vars

\* ------------------------------------------- StartControllers on its own
\* SpecSC: one call of StartControllers, its arguments drawn: the registry
\* (any part of the known controllers), the enablement policy, unsecuredMux
\* nil or not, the checks healthzHandler already holds, and initializers that
\* return any (controller, started, err).
ConfigsSC ==
    [leaderElect : {FALSE}, leaderMigration : {FALSE}, secureServing : BOOLEAN,
     disabled : SUBSET NewControllerInitializers, filter : {AllNonMigrated},
     initResults : {InitResults}]

InitSC ==
    /\ cfg \in ConfigsSC
    /\ holder = [l \in Locks |-> {}]
    /\ pc = [p \in Procs |-> IF p = 1 THEN "direct" ELSE "absent"]
    /\ exitCode = [p \in Procs |-> 0]
    /\ stopCh = [p \in Procs |-> FALSE]
    /\ migrationReady = [p \in Procs |-> FALSE]
    /\ \E before \in {{}, {ElectionChecker}} :
         healthz = [p \in Procs |-> IF p = 1 THEN before ELSE {}]
    /\ mux = [p \in Procs |-> {}]
    /\ election = [p \in Procs |-> [l \in Locks |-> "none"]]
    /\ leadCount = [p \in Procs |-> [l \in Locks |-> 0]]
    /\ \E controllers \in SUBSET NewControllerInitializers :
         /\ cfg.disabled \subseteq controllers
         /\ epoch = [p \in Procs |-> [l \in Locks |->
                IF p = 1 /\ l = "main"
                THEN [IdleEpoch EXCEPT !.phase = "loop",
                                       !.initializers = controllers,
                                       !.pending = controllers]
                ELSE IdleEpoch]]
    /\ call = NoCall

NextSC ==
    \/ \E p \in Procs, l \in Locks : StartControllersNext(p, l)
    \/ \E p \in Procs, l \in Locks : StartControllersInvoke(p, l)
    \/ \E p \in Procs, l \in Locks : StartControllersReturn(p, l)
    \/ \E p \in Procs, l \in Locks : StartControllersFinish(p, l)

SpecSC == InitSC /\ [][NextSC]_vars

\* ------------------------------------------ the initializersFunc on its own
\* SpecFilter: the initializersFunc of each lock's OnStartedLeading is
\* evaluated, for every classification function.
ConfigsFilter ==
    [leaderElect : {TRUE}, leaderMigration : BOOLEAN, secureServing : {TRUE},
     disabled : {{}}, filter : [NewControllerInitializers -> FilterResults],
     initResults : {BasicInitResults}]

InitFilter ==
    /\ cfg \in ConfigsFilter
    /\ holder = [l \in Locks |-> {}]
    /\ pc = [p \in Procs |-> IF p = 1 THEN "waitStop" ELSE "absent"]
    /\ exitCode = [p \in Procs |-> 0]
    /\ stopCh = [p \in Procs |-> FALSE]
    /\ migrationReady = [p \in Procs |-> FALSE]
    /\ healthz = [p \in Procs |-> {}]
    /\ mux = [p \in Procs |-> {}]
    /\ election = [p \in Procs |-> [l \in Locks |-> "none"]]
    /\ leadCount = [p \in Procs |-> [l \in Locks |-> 0]]
    /\ epoch = [p \in Procs |-> [l \in Locks |-> IdleEpoch]]
    /\ call = NoCall

\* controllerInitializers := initializersFunc(), for the callback of lock l.
EvalInitializersFunc(p, l) ==
    /\ Alive(p)
    /\ epoch[p][l].phase = "idle"
    /\ l = "migration" => LeaderMigratorEnabled
    /\ epoch' = [epoch EXCEPT ![p][l].phase = "loop",
                              ![p][l].initializers = InitializersFuncOf(l),
                              ![p][l].pending = InitializersFuncOf(l)]
    /\ UNCHANGED <<cfg, call, holder, pc, exitCode, stopCh, migrationReady, healthz,
                   mux, election, leadCount>>

NextFilter == \E p \in Procs, l \in Locks : EvalInitializersFunc(p, l)

SpecFilter == InitFilter /\ [][NextFilter]_vars

\* ---------------------------------------------------------- properties
AllFactoriesStarted(e) == e.factories = Len(InformerFactories)

\* StartControllers has returned nil and no initializer is pending or running.
ControllersInitialized(e) ==
    /\ e.phase \in {"screturned", "informers", "blocked"}
    /\ e.result = NoError
    /\ e.pending = {}
    /\ e.cur = NoName

\* C1: within one leadership epoch Start is called on an informer factory only
\* after the registry loop is over (no initializer pending or running) and
\* StartControllers has returned nil.
C1_InitializedBeforeFactoryStart ==
    \A p \in Procs, l \in Locks :
        epoch[p][l].factories > 0 => ControllersInitialized(epoch[p][l])

\* C1 witness: a factory of an epoch in which a controller was started is started.
C1_Witness ==
    \E p \in Procs, l \in Locks :
        /\ epoch[p][l].factories > 0
        /\ epoch[p][l].started # {}
        /\ cfg.leaderElect

\* C2: with leader migration enabled the election of the migration lock is
\* not started in a process before its MigrationReady gate is closed.
C2_MigrationLockAfterReady ==
    \A p \in Procs :
        election[p]["migration"] # "none" => migrationReady[p]

\* C2 witness: leader migration is enabled, the main lock's OnStartedLeading
\* is still at work, Run waits at the gate and no migration election exists.
C2_Witness ==
    \E p \in Procs :
        /\ LeaderMigratorEnabled
        /\ pc[p] = "gate"
        /\ election[p]["main"] = "leading"
        /\ epoch[p]["main"].phase = "running"
        /\ election[p]["migration"] = "none"

\* C3 (the claim as stated): with leader migration enabled, once the main
\* lock's OnStartedLeading has started the non-migrated controllers (run has
\* closed InformersStarted and waits for its context), the MigrationReady gate
\* is closed.
C3_ReadySignalledAfterMainStart ==
    \A p \in Procs :
        (LeaderMigratorEnabled /\ epoch[p]["main"].phase = "blocked")
            => migrationReady[p]

\* A process has ended.
Terminated(p) == pc[p] \in {"exited", "returned"}

\* C4: per lock and process the election goes none, unacquired, leading and
\* never back; leading is left only when the process ends, with a non-zero
\* exit code unless Run returned; no process leads a lock twice.
C4_LockLifecycle ==
    /\ [](\A p \in Procs, l \in Locks : leadCount[p][l] <= 1)
    /\ [][\A p \in Procs, l \in Locks :
            /\ (election[p][l] = "leading" /\ election'[p][l] # "leading")
                  => /\ Terminated(p)'
                     /\ pc'[p] = "exited" => exitCode'[p] # 0
            /\ election'[p][l] = "leading"
                  => election[p][l] \in {"unacquired", "leading"}
            /\ election'[p][l] = "unacquired"
                  => election[p][l] \in {"none", "unacquired"}]_vars

\* C4 witness: a process that led the main lock has lost it and has exited
\* with code 1, and another process leads the main lock.
C4_Witness ==
    \E p, q \in Procs :
        /\ pc[p] = "exited" /\ exitCode[p] = 1 /\ leadCount[p]["main"] = 1
        /\ election[q]["main"] = "leading"

\* C5: with leader migration enabled no process holds the main lock while
\* another holds the migration lock, and no controller is started in two
\* processes at once.
C5_NoSplitLocks ==
    LeaderMigratorEnabled =>
        \A p, q \in Procs :
            p # q =>
                /\ ~(p \in holder["main"] /\ q \in holder["migration"])
                /\ \A l1, l2 \in Locks :
                       epoch[p][l1].started \cap epoch[q][l2].started = {}

\* C5 witness: with leader migration enabled one process leads the main lock
\* with a controller started and another process contends for it.
C5_Witness ==
    \E p, q \in Procs :
        /\ LeaderMigratorEnabled
        /\ p # q
        /\ holder["main"] = {p}
        /\ epoch[p]["main"].started # {}
        /\ election[q]["main"] = "unacquired"

\* C6: with leader migration enabled the initializers handed to run under
\* the main lock are exactly the registry entries tagged non-migrated, those
\* under the migration lock exactly the entries tagged migrated, and the two
\* are disjoint, for every classification function.
C6_FilteredInitializers ==
    LeaderMigratorEnabled =>
        \A p \in Procs :
            /\ epoch[p]["main"].phase # "idle" =>
                  epoch[p]["main"].initializers =
                      {name \in NewControllerInitializers :
                          cfg.filter[name] = ControllerNonMigrated}
            /\ epoch[p]["migration"].phase # "idle" =>
                  epoch[p]["migration"].initializers =
                      {name \in NewControllerInitializers :
                          cfg.filter[name] = ControllerMigrated}
            /\ epoch[p]["main"].initializers
                  \cap epoch[p]["migration"].initializers = {}

\* C6 witness: both initializersFuncs were evaluated for a classification
\* that tags some controller migrated, some non-migrated and some unowned.
C6_Witness ==
    \E p \in Procs :
        /\ LeaderMigratorEnabled
        /\ epoch[p]["main"].phase # "idle"
        /\ epoch[p]["migration"].phase # "idle"
        /\ epoch[p]["main"].initializers # {}
        /\ epoch[p]["migration"].initializers # {}
        /\ \E name \in NewControllerInitializers :
               cfg.filter[name] = ControllerUnowned

\* C7: the InformersStarted gate of an epoch is closed at most once, it is
\* closed only when StartControllers has returned nil with no initializer
\* pending or running, and it is closed once when run waits for its context.
C7_GateClosedOnceAfterInit ==
    \A p \in Procs, l \in Locks :
        /\ epoch[p][l].gateCloses <= 1
        /\ epoch[p][l].gateCloses = 1 => ControllersInitialized(epoch[p][l])
        /\ epoch[p][l].phase = "blocked" <=> epoch[p][l].gateCloses = 1

\* C7 witness: the gate of an epoch with an enabled, started controller is closed.
C7_Witness ==
    \E p \in Procs, l \in Locks :
        /\ epoch[p][l].gateCloses = 1
        /\ epoch[p][l].started # {}
        /\ cfg.disabled # {}

\* C8 (the claim as stated): no informer factory is started before the
\* InformersStarted gate has been closed.
C8_NoFactoryStartBeforeGate ==
    \A p \in Procs, l \in Locks :
        epoch[p][l].factories > 0 => epoch[p][l].gateCloses >= 1

\* C8 (amended): the InformersStarted gate is closed only after Start has
\* been called on all eight informer factories of the epoch.
C8_GateClosedAfterAllFactories ==
    \A p \in Procs, l \in Locks :
        epoch[p][l].gateCloses >= 1 => AllFactoriesStarted(epoch[p][l])

\* C8 witness: the gate is closed, without leader election.
C8_Witness ==
    \E p \in Procs, l \in Locks :
        /\ epoch[p][l].gateCloses >= 1
        /\ ~cfg.leaderElect

\* C9: once an initializer has returned a non-nil error, StartControllers has
\* returned that error (in the same step) and no further initializer is
\* slept for or invoked.
C9_ErrorReturnedAtOnce ==
    \A p \in Procs, l \in Locks :
        epoch[p][l].initErr # NoError =>
            /\ epoch[p][l].phase = "screturned"
            /\ epoch[p][l].result = epoch[p][l].initErr

\* C9 witness: the second invoked initializer returned an error while an
\* enabled controller was not invoked yet.
C9_Witness ==
    \E p \in Procs, l \in Locks :
        /\ epoch[p][l].result = "errB"
        /\ epoch[p][l].started # {}
        /\ \E name \in epoch[p][l].pending : IsControllerEnabled(name)

\* The checks of controllers that healthzHandler holds.
ControllerChecksRegistered(p) == healthz[p] \ {ElectionChecker}

\* C10: when StartControllers has returned and no initializer returned an
\* error, it returned nil and registered one check for each controller whose
\* initializer returned started = true, and for no other; these controllers
\* are enabled.
C10_OneCheckPerStarted ==
    \A p \in Procs, l \in Locks :
        (epoch[p][l].phase = "screturned" /\ epoch[p][l].initErr = NoError) =>
            /\ epoch[p][l].result = NoError
            /\ Cardinality(ControllerChecksRegistered(p))
                  = Cardinality(epoch[p][l].started)
            /\ {c.name : c \in ControllerChecksRegistered(p)} = epoch[p][l].started
            /\ \A name \in epoch[p][l].started :
                  name \in epoch[p][l].initializers /\ IsControllerEnabled(name)

\* C10 witness: of three controllers one is disabled, one declined and one
\* started, and StartControllers returned nil with exactly one check.
C10_Witness ==
    \E p \in Procs, l \in Locks :
        /\ epoch[p][l].phase = "screturned"
        /\ epoch[p][l].result = NoError
        /\ Cardinality(epoch[p][l].initializers) = 3
        /\ Cardinality(cfg.disabled) = 1
        /\ Cardinality(epoch[p][l].started) = 1
        /\ Cardinality(ControllerChecksRegistered(p)) = 1

\* The checks healthzHandler holds under the name of a controller.
ChecksNamed(p, name) == {c \in ControllerChecksRegistered(p) : c.name = name}

\* C11 (the claim as stated): after StartControllers has returned nil, every
\* controller of the registry that the policy enables has exactly one check
\* registered under its name.
C11_EveryEnabledHasCheck ==
    \A p \in Procs, l \in Locks :
        (epoch[p][l].phase = "screturned" /\ epoch[p][l].result = NoError) =>
            \A name \in epoch[p][l].initializers :
                IsControllerEnabled(name) => Cardinality(ChecksNamed(p, name)) = 1

\* C11 (amended): after StartControllers has returned nil, a controller of the
\* registry has exactly one check under its name, its own probe or the ping,
\* when the policy enables it and its initializer returned started = true, and
\* no check when it is disabled or its initializer returned started = false.
C11_OneCheckPerStartedController ==
    \A p \in Procs, l \in Locks :
        (epoch[p][l].phase = "screturned" /\ epoch[p][l].result = NoError) =>
            \A name \in epoch[p][l].initializers :
                IF IsControllerEnabled(name) /\ name \in epoch[p][l].started
                THEN /\ Cardinality(ChecksNamed(p, name)) = 1
                     /\ \A c \in ChecksNamed(p, name) : c.kind \in {"real", "ping"}
                ELSE ChecksNamed(p, name) = {}

\* C11 witness: StartControllers returned nil for a registry of three enabled
\* controllers: one registered its own probe, one (a nil controller or one
\* without a probe) got the ping, and one declined and has no check.
C11_Witness ==
    \E p \in Procs, l \in Locks :
        /\ epoch[p][l].phase = "screturned"
        /\ epoch[p][l].result = NoError
        /\ cfg.disabled = {}
        /\ \E n1, n2, n3 \in epoch[p][l].initializers :
              /\ ChecksNamed(p, n1) = {[name |-> n1, kind |-> "real"]}
              /\ ChecksNamed(p, n2) = {[name |-> n2, kind |-> "ping"]}
              /\ n3 \notin epoch[p][l].started
              /\ ChecksNamed(p, n3) = {}

\* C12: during one call of StartControllers the checks healthzHandler holds
\* change in one step only, the one in which StartControllers returns nil after
\* the whole registry was processed, and that step adds all accumulated checks
\* of the call; a call that returns an error registers nothing.
C12_ChecksRegisteredAtOnce ==
    [][\A p \in Procs :
          healthz'[p] # healthz[p] =>
              \E l \in Locks :
                  /\ epoch[p][l].phase = "loop"
                  /\ epoch[p][l].pending = {}
                  /\ epoch'[p][l].phase = "screturned"
                  /\ epoch'[p][l].result = NoError
                  /\ healthz'[p] = healthz[p] \cup epoch[p][l].checks]_vars

\* C12 witness: StartControllers returned nil with two controller checks
\* registered beside the check the handler held before the call.
C12_Witness ==
    \E p \in Procs, l \in Locks :
        /\ epoch[p][l].phase = "screturned"
        /\ epoch[p][l].result = NoError
        /\ Cardinality(epoch[p][l].checks) >= 2
        /\ healthz[p] = {ElectionChecker} \cup epoch[p][l].checks

\* The controllers whose initializer returned started = true in process p.
StartedIn(p) == UNION {epoch[p][l].started : l \in Locks}

\* Startup of process p is over: every run closure that was called waits for
\* its context, and one was called.
StartupCompleted(p) ==
    /\ \E l \in Locks : epoch[p][l].phase = "blocked"
    /\ \A l \in Locks : epoch[p][l].phase \in {"idle", "blocked"}

\* C13: once startup has completed, healthzHandler holds the leader-election
\* watchdog check if and only if leader election is enabled, exactly one check
\* under the name of each controller started in the process, and nothing else.
C13_HealthChecksAfterStartup ==
    \A p \in Procs :
        StartupCompleted(p) =>
            /\ ElectionChecker \in healthz[p] <=> cfg.leaderElect
            /\ \A name \in StartedIn(p) : Cardinality(ChecksNamed(p, name)) = 1
            /\ \A c \in ControllerChecksRegistered(p) : c.name \in StartedIn(p)

\* C13 witness: without leader election startup has completed with a started
\* and a disabled controller, and the handler holds controller checks only.
C13_Witness ==
    \E p \in Procs :
        /\ StartupCompleted(p)
        /\ ~cfg.leaderElect
        /\ cfg.disabled # {}
        /\ StartedIn(p) # {}
        /\ healthz[p] # {}

\* ------------------------------------------- GetAvailableResources on its own
\* The configuration of the specifications that examine one function.
NoConfig ==
    [leaderElect |-> FALSE, leaderMigration |-> FALSE, secureServing |-> FALSE,
     disabled |-> {}, filter |-> AllNonMigrated, initResults |-> BasicInitResults]

\* No process runs.
NoProcess ==
    /\ cfg = NoConfig
    /\ holder = [l \in Locks |-> {}]
    /\ pc = [p \in Procs |-> "absent"]
    /\ exitCode = [p \in Procs |-> 0]
    /\ stopCh = [p \in Procs |-> FALSE]
    /\ migrationReady = [p \in Procs |-> FALSE]
    /\ healthz = [p \in Procs |-> {}]
    /\ mux = [p \in Procs |-> {}]
    /\ election = [p \in Procs |-> [l \in Locks |-> "none"]]
    /\ leadCount = [p \in Procs |-> [l \in Locks |-> 0]]
    /\ epoch = [p \in Procs |-> [l \in Locks |-> IdleEpoch]]

InitDiscovery ==
    /\ NoProcess
    /\ \E client \in DiscoveryResults :
         call = [fn |-> "GetAvailableResources", client |-> client, done |-> FALSE,
                 ret |-> [allResources |-> {}, err |-> NoError, logged |-> FALSE]]

\* GetAvailableResources(client) is called and returns.
CallGetAvailableResources ==
    /\ call.fn = "GetAvailableResources"
    /\ ~call.done
    /\ call' = [call EXCEPT !.done = TRUE, !.ret = GetAvailableResources(call.client)]
    /\ UNCHANGED <<cfg, holder, pc, exitCode, stopCh, migrationReady, healthz, mux,
                   election, leadCount, epoch>>

NextDiscovery == CallGetAvailableResources

\* SpecDiscovery: one call of GetAvailableResources, for every result of the
\* discovery client of up to MaxLists resource lists.
SpecDiscovery == InitDiscovery /\ [][NextDiscovery]_vars

\* ---------------------------------------------------------- properties
GetAvailableResourcesReturned ==
    call.fn = "GetAvailableResources" /\ call.done

\* The group-version-resources of one resource list, its GroupVersion read as
\* "version" or "group/version".
ResourcesOfList(list) ==
    {[Group |-> IF Len(list.GroupVersion) = 1 THEN "" ELSE list.GroupVersion[1],
      Version |-> IF Len(list.GroupVersion) = 1 THEN list.GroupVersion[1]
                  ELSE list.GroupVersion[2],
      Resource |-> name] : name \in list.APIResources}

ResourcesOfLists(resourceMap) ==
    UNION {ResourcesOfList(resourceMap[i]) : i \in 1..Len(resourceMap)}

\* Every GroupVersion of resourceMap has one "/" at most.
WellFormed(resourceMap) ==
    \A i \in 1..Len(resourceMap) : Len(resourceMap[i].GroupVersion) <= 2

\* C14 (the claim as stated): GetAvailableResources returns an error when the
\* discovery call yields no resource list; when the discovery call reports an
\* error and yields a resource list, the error is logged and the call returns
\* nil and the group-version-resources of the lists.
C14_ErrorOnlyWhenNoLists ==
    GetAvailableResourcesReturned =>
        /\ Len(call.client.resourceMap) = 0 => call.ret.err # NoError
        /\ (call.client.err # NoError /\ Len(call.client.resourceMap) > 0) =>
              /\ call.ret.logged
              /\ call.ret.err = NoError
              /\ call.ret.allResources = ResourcesOfLists(call.client.resourceMap)

\* C14 (amended): GetAvailableResources returns an error when the discovery
\* call yields no resource list; when the discovery call reports an error and
\* yields a resource list, the error is logged, and the call returns nil and
\* the group-version-resources of the lists if every GroupVersion parses, and
\* the parse error and no resources otherwise.
C14_PartialDiscoveryOfParsedLists ==
    GetAvailableResourcesReturned =>
        /\ Len(call.client.resourceMap) = 0 => call.ret.err # NoError
        /\ (call.client.err # NoError /\ Len(call.client.resourceMap) > 0) =>
              /\ call.ret.logged
              /\ IF WellFormed(call.client.resourceMap)
                 THEN /\ call.ret.err = NoError
                      /\ call.ret.allResources
                            = ResourcesOfLists(call.client.resourceMap)
                 ELSE /\ call.ret.err = "unexpectedGroupVersion"
                      /\ call.ret.allResources = {}

\* C14 witness: the discovery call reported an error and yielded two lists of
\* different group-versions, and the call returned their resources and nil.
C14_Witness ==
    /\ GetAvailableResourcesReturned
    /\ call.client.err # NoError
    /\ Len(call.client.resourceMap) = 2
    /\ call.ret.err = NoError
    /\ call.ret.logged
    /\ Cardinality(call.ret.allResources) >= 3

\* ----------------------------------------- CreateControllerContext on its own
InitContext ==
    /\ NoProcess
    /\ \E env \in ContextEnvs :
         call = [fn |-> "CreateControllerContext", env |-> env, done |-> FALSE,
                 ret |-> [ctx |-> EmptyContext, err |-> NoError, cause |-> NoError,
                          steps |-> <<>>]]

\* CreateControllerContext is called and returns.
CallCreateControllerContext ==
    /\ call.fn = "CreateControllerContext"
    /\ ~call.done
    /\ call' = [call EXCEPT !.done = TRUE, !.ret = ControllerContextOf(call.env)]
    /\ UNCHANGED <<cfg, holder, pc, exitCode, stopCh, migrationReady, healthz, mux,
                   election, leadCount, epoch>>

NextContext == CallCreateControllerContext

\* SpecContext: one call of CreateControllerContext, in every environment.
SpecContext == InitContext /\ [][NextContext]_vars

\* ---------------------------------------------------------- properties
\* The steps of CreateControllerContext that fail in env when executed.
FailingSteps(env) ==
    {s \in ContextErrors :
        \/ s = "waitKarmadaAPIServer" /\ ~env.waitKarmada
        \/ s = "waitFireflyAPIServer" /\ ~env.waitFirefly
        \/ s = "karmadaDiscovery" /\ GetAvailableResources(env.karmada).err # NoError
        \/ s = "hostClusterDiscovery" /\ GetAvailableResources(env.host).err # NoError}

\* The error of step s in env.
CauseOf(env, s) ==
    IF s = "karmadaDiscovery" THEN GetAvailableResources(env.karmada).err
    ELSE IF s = "hostClusterDiscovery" THEN GetAvailableResources(env.host).err
    ELSE "timeout"

\* Every field of ctx is set, the resource sets to what discovery returned.
Populated(ctx, env) ==
    /\ ctx.factories = {InformerFactories[i] : i \in 1..Len(InformerFactories)}
    /\ ctx.RESTMapper
    /\ ctx.AvailableResources = GetAvailableResources(env.karmada).allResources
    /\ ctx.HostClusterAvailableResources = GetAvailableResources(env.host).allResources
    /\ ctx.InformersStarted = "open"

\* C15: CreateControllerContext returns a fully populated ControllerContext
\* and nil, or the empty ControllerContext and an error; it fails exactly when
\* a wait for an API server or a discovery call fails, it returns the error of
\* the first step that fails, and it executes no step after that one.
C15_ContextOrError ==
    (call.fn = "CreateControllerContext" /\ call.done) =>
        LET r == call.ret
            failing == FailingSteps(call.env)
        IN  /\ \/ r.err = NoError /\ Populated(r.ctx, call.env)
               \/ r.err # NoError /\ r.ctx = EmptyContext
            /\ r.err = NoError <=> failing = {}
            /\ r.err = NoError => r.steps = ContextSteps
            /\ r.err # NoError =>
                  /\ r.err \in failing
                  /\ r.steps[Len(r.steps)] = r.err
                  /\ \A i \in 1..Len(r.steps) :
                        /\ r.steps[i] = ContextSteps[i]
                        /\ i < Len(r.steps) => r.steps[i] \notin failing
                  /\ r.cause = CauseOf(call.env, r.err)

\* C15 witness: both waits and the karmada discovery succeeded and the
\* discovery of the host cluster failed on a malformed GroupVersion: the
\* empty context is returned with that error.
C15_Witness ==
    /\ call.fn = "CreateControllerContext"
    /\ call.done
    /\ call.ret.err = "hostClusterDiscovery"
    /\ call.ret.cause = "unexpectedGroupVersion"
    /\ call.ret.ctx = EmptyContext
    /\ Len(call.ret.steps) = 7

\* ------------------------------------------------------------- liveness
\* A step of process p's own goroutines: Run, the elections and the run
\* closures.  Stop and LoseLeadership are steps of the environment.
ProcessStep(p) ==
    \/ RunStart(p)
    \/ RunMigrationLock(p)
    \/ RunReturn(p)
    \/ RunDirectReturn(p)
    \/ \E l \in Locks :
          \/ Acquire(p, l)
          \/ CreateControllerContext(p, l)
          \/ RunStartControllers(p, l)
          \/ StartControllersNext(p, l)
          \/ StartControllersInvoke(p, l)
          \/ StartControllersReturn(p, l)
          \/ StartControllersFinish(p, l)
          \/ RunAfterStartControllers(p, l)
          \/ StartInformerFactory(p, l)
          \/ CloseInformersStarted(p, l)

\* Every goroutine that can take a step is scheduled in the end (the sleeps,
\* waits and initializers return), and the lease of a dead holder expires.
Fairness ==
    /\ \A p \in Procs : WF_vars(ProcessStep(p))
    /\ \A l \in Locks : WF_vars(LeaseExpire(l))

\* SpecLive: Spec with the scheduling of the goroutines.
SpecLive == Spec /\ Fairness

\* C16 (the claim as stated): in every configuration, once the stop channel of
\* a process is closed, Run returns in the end (or the process has ended
\* before it could).
C16_StopLeadsToReturn ==
    \A p \in Procs : stopCh[p] ~> Terminated(p)

\* ------------------------------------------------------- long-lived tasks
\* Whether the context handed to run, to the initializers and (as stop) to
\* CreateControllerContext is done.  Without leader election it is
\* wait.ContextForChannel(stopCh); with leader election it is the context of
\* leaderelection.RunOrDie(context.TODO(), ...), which stopCh does not cancel:
\* it ends with the leadership, and then the process exits.
ContextDone(p, l) == IF cfg.leaderElect THEN FALSE ELSE stopCh[p]

\* The long-lived tasks of process p that run: the leader-election loops, the
\* controllers started with the context of a run closure, the REST-mapper
\* reset loop of a ControllerContext (wait.Until(..., stop)) and the informer
\* factories, which are started with stopCh.
TasksRunning(p) ==
    {<<"leaderElection", l>> : l \in {k \in Locks :
        election[p][k] \in {"unacquired", "leading"}}}
    \cup {<<"controllers", l>> : l \in {k \in Locks :
        epoch[p][k].started # {} /\ ~ContextDone(p, k)}}
    \cup {<<"restMapperReset", l>> : l \in {k \in Locks :
        /\ epoch[p][k].phase \notin {"idle", "create"}
        /\ epoch[p][k].ctxErr \notin {"waitKarmadaAPIServer", "waitFireflyAPIServer"}
        /\ ~ContextDone(p, k)}}
    \cup {<<"informerFactories", l>> : l \in {k \in Locks :
        epoch[p][k].factories > 0 /\ ~stopCh[p]}}

\* C17 (the claim as stated): once the stop channel of a process is closed,
\* every long-lived task of the process is stopped in the end, with and
\* without leader election.
C17_StopReachesEveryTask ==
    \A p \in Procs : stopCh[p] ~> (TasksRunning(p) = {})

\* ------------------------------------------ the InformersStarted gate on its own
\* A holder of the ControllerContext (every initializer gets a copy, with the
\* same channel) calls close(InformersStarted) after run has closed it: Go
\* panics on the close of a closed channel and the process crashes.
CloseInformersStartedAgain(p, l) ==
    /\ Alive(p)
    /\ epoch[p][l].gateCloses >= 1
    /\ Terminate(p, "panicked", 2)
    /\ UNCHANGED <<cfg, call, holder, leadCount>>

InitGate == Init /\ ~cfg.leaderElect

NextGate ==
    \/ \E p \in Procs : RunStart(p)
    \/ \E p \in Procs : RunDirectReturn(p)
    \/ \E p \in Procs : Stop(p)
    \/ \E p \in Procs, l \in Locks : CreateControllerContext(p, l)
    \/ \E p \in Procs, l \in Locks : RunStartControllers(p, l)
    \/ \E p \in Procs, l \in Locks : StartControllersNext(p, l)
    \/ \E p \in Procs, l \in Locks : StartControllersInvoke(p, l)
    \/ \E p \in Procs, l \in Locks : StartControllersReturn(p, l)
    \/ \E p \in Procs, l \in Locks : StartControllersFinish(p, l)
    \/ \E p \in Procs, l \in Locks : RunAfterStartControllers(p, l)
    \/ \E p \in Procs, l \in Locks : StartInformerFactory(p, l)
    \/ \E p \in Procs, l \in Locks : CloseInformersStarted(p, l)
    \/ \E p \in Procs, l \in Locks : CloseInformersStartedAgain(p, l)

\* SpecGate: Run without leader election, and a holder of the
\* ControllerContext that closes the InformersStarted gate a second time.
SpecGate == InitGate /\ [][NextGate]_vars

\* C18 (the claim as stated): a second close of the InformersStarted gate is a
\* no-op: no process panics on it.
C18_SecondCloseIsNoOp ==
    \A p \in Procs : pc[p] # "panicked"

\* ---------------------------------------------------- ResyncPeriod on its own
\* Largest MinResyncPeriod, in nanoseconds.
MaxPeriod == 6
\* Number of invocations of one closure.
MaxCalls == 2
\* Bits of a float64 mantissa, and of a number of rand.Float64 (53 in Go).
RandBits == 3

RECURSIVE Pow2(_)
Pow2(n) == IF n = 0 THEN 1 ELSE 2 * Pow2(n - 1)

\* rand.Float64() returns k / 2^RandBits for some k of these.
RandFloat64 == 0..(Pow2(RandBits) - 1)

\* rand.Float64() + 1 in float64, as a multiple of the spacing 2^-(RandBits-1)
\* of the float64s of [1, 2]: a sum that lies halfway between two of them is
\* rounded to the one with the even mantissa, so the largest k gives 2.
Factor(k) ==
    LET ulps == Pow2(RandBits - 1)
        down == k \div 2
    IN  IF k % 2 = 0 THEN ulps + down
        ELSE IF (ulps + down) % 2 = 0 THEN ulps + down ELSE ulps + down + 1

\* Mutant: the factor is rand.Float64(), without the 1.
ResyncPeriodUnjittered(min, k) ==
    (min * k) \div Pow2(RandBits)

\* One invocation of the closure ResyncPeriod(c) returns, with MinResyncPeriod
\* min and rand.Float64() = k / 2^RandBits: the product, truncated by
\* time.Duration.
ResyncPeriod(min, k) ==
    (min * Factor(k)) \div Pow2(RandBits - 1)

InitResync ==
    /\ NoProcess
    /\ \E min \in 0..MaxPeriod :
         call = [fn |-> "ResyncPeriod", MinResyncPeriod |-> min, out |-> <<>>]

\* The closure is invoked once more.
InvokeResyncPeriod ==
    /\ call.fn = "ResyncPeriod"
    /\ Len(call.out) < MaxCalls
    /\ \E k \in RandFloat64 :
         call' = [call EXCEPT !.out = Append(@, ResyncPeriod(call.MinResyncPeriod, k))]
    /\ UNCHANGED <<cfg, holder, pc, exitCode, stopCh, migrationReady, healthz, mux,
                   election, leadCount, epoch>>

NextResync == InvokeResyncPeriod

\* SpecResync: up to MaxCalls invocations of one closure of ResyncPeriod, for
\* every MinResyncPeriod up to MaxPeriod.
SpecResync == InitResync /\ [][NextResync]_vars

\* C19 (the claim as stated): every invocation returns d with
\* min <= d < 2 * min.
C19_ResyncPeriodBelowTwiceMin ==
    call.fn = "ResyncPeriod" =>
        \A i \in 1..Len(call.out) :
            /\ call.MinResyncPeriod <= call.out[i]
            /\ call.out[i] < 2 * call.MinResyncPeriod

\* C19 (amended): every invocation returns d with min <= d <= 2 * min, for a
\* MinResyncPeriod min >= 0.
C19_ResyncPeriodUpToTwiceMin ==
    call.fn = "ResyncPeriod" =>
        \A i \in 1..Len(call.out) :
            /\ call.MinResyncPeriod <= call.out[i]
            /\ call.out[i] <= 2 * call.MinResyncPeriod

\* C19 witness: two invocations of one closure with a positive MinResyncPeriod
\* returned different durations, the second twice the MinResyncPeriod.
C19_Witness ==
    /\ call.fn = "ResyncPeriod"
    /\ call.MinResyncPeriod > 0
    /\ Len(call.out) = 2
    /\ call.out[1] # call.out[2]
    /\ call.out[2] = 2 * call.MinResyncPeriod

\* ---------------------------------------------------------- properties
\* CreateControllerContext or StartControllers has returned an error in the
\* epoch of lock l of process p.
EpochFailed(p, l) ==
    \/ epoch[p][l].ctxErr # NoError
    \/ epoch[p][l].result \notin {"none", NoError}

\* C20: an epoch in which CreateControllerContext or StartControllers returned
\* an error has no informer factory started and its InformersStarted gate
\* open, it takes no further step but the end of the process, and the process
\* ends.
C20_FatalOnEpochError ==
    /\ [](\A p \in Procs, l \in Locks :
            EpochFailed(p, l) =>
                epoch[p][l].factories = 0 /\ epoch[p][l].gateCloses = 0)
    /\ [][\A p \in Procs, l \in Locks :
            EpochFailed(p, l) =>
                epoch'[p][l] = epoch[p][l] \/ Terminated(p)']_vars
    /\ \A p \in Procs, l \in Locks : EpochFailed(p, l) ~> Terminated(p)

\* C20 witness: a process that led the main lock has ended by klog.Fatalf,
\* which only a failed epoch calls.
C20_Witness ==
    \E p \in Procs :
        /\ pc[p] = "exited"
        /\ exitCode[p] = 255
        /\ leadCount[p]["main"] = 1

\* An initializer of the epoch e has been slept for or invoked and has not
\* returned yet.
InitializerInProgress(e) == e.phase \in {"sleep", "running"}

\* C21: within one StartControllers call an initializer is invoked only out of
\* the sleep that was begun for it, a sleep is begun only when no initializer
\* is in progress (the previous one has returned) and for a pending, enabled
\* controller, and an initializer that executes is the only one: the next step
\* of the call is its return.
C21_SequentialInitializers ==
    /\ [](\A p \in Procs, l \in Locks :
            /\ InitializerInProgress(epoch[p][l])
                  => /\ epoch[p][l].cur \in epoch[p][l].initializers
                     /\ epoch[p][l].cur \notin epoch[p][l].pending
            /\ epoch[p][l].phase = "loop" => epoch[p][l].cur = NoName)
    /\ [][\A p \in Procs, l \in Locks :
            /\ (epoch'[p][l].phase = "running" /\ epoch[p][l].phase # "running")
                  => /\ epoch[p][l].phase = "sleep"
                     /\ epoch'[p][l].cur = epoch[p][l].cur
            /\ (epoch'[p][l].phase = "sleep" /\ epoch[p][l].phase # "sleep")
                  => /\ epoch[p][l].phase = "loop"
                     /\ ~InitializerInProgress(epoch[p][l])
                     /\ epoch'[p][l].cur \in epoch[p][l].pending
                     /\ IsControllerEnabled(epoch'[p][l].cur)
            /\ (epoch[p][l].phase = "running" /\ epoch'[p][l] # epoch[p][l])
                  => /\ epoch'[p][l].phase \in {"loop", "screturned"}
                     /\ epoch'[p][l].pending = epoch[p][l].pending]_vars

\* C21 witness: an initializer executes after an earlier one of the same call
\* has returned started = true, and another controller is still pending.
C21_Witness ==
    \E p \in Procs, l \in Locks :
        /\ epoch[p][l].phase = "running"
        /\ epoch[p][l].started # {}
        /\ epoch[p][l].pending # {}

\* C22: a controller disabled by policy is never slept for nor invoked, is
\* never recorded as started, has no health check accumulated or registered
\* and no debug endpoint mounted, and the step that passes over it leaves the
\* call in its loop with no result and everything else of the call as it was.
C22_DisabledControllerSkipped ==
    /\ [](\A p \in Procs, l \in Locks :
            \A name \in epoch[p][l].initializers :
                name \in cfg.disabled =>
                    /\ epoch[p][l].cur # name
                    /\ name \notin epoch[p][l].started
                    /\ \A c \in epoch[p][l].checks : c.name # name
                    /\ ChecksNamed(p, name) = {}
                    /\ name \notin mux[p])
    /\ [][\A p \in Procs, l \in Locks :
            \A name \in epoch[p][l].pending \ epoch'[p][l].pending :
                name \in cfg.disabled =>
                    /\ epoch'[p][l] = [epoch[p][l] EXCEPT !.pending = @ \ {name}]
                    /\ epoch'[p][l].phase = "loop"
                    /\ epoch'[p][l].result = "none"
                    /\ healthz' = healthz
                    /\ mux' = mux]_vars

\* C22 witness: a call whose registry holds a disabled controller has passed
\* over it, started another controller and returned nil.
C22_Witness ==
    \E p \in Procs, l \in Locks :
        /\ epoch[p][l].phase = "screturned"
        /\ epoch[p][l].result = NoError
        /\ epoch[p][l].started # {}
        /\ epoch[p][l].initializers \cap cfg.disabled # {}

\* ------------------------------- StartControllers with one initializer result
\* SpecOneResult: one call of StartControllers as in SpecSC, in which every
\* initializer returns the same (controller, started, err) triple, for every
\* triple: the triple that was returned stays readable in cfg.initResults.
ConfigsOneResult ==
    [leaderElect : {FALSE}, leaderMigration : {FALSE}, secureServing : BOOLEAN,
     disabled : SUBSET NewControllerInitializers, filter : {AllNonMigrated},
     initResults : {{r} : r \in InitResults}]

InitOneResult ==
    /\ cfg \in ConfigsOneResult
    /\ holder = [l \in Locks |-> {}]
    /\ pc = [p \in Procs |-> IF p = 1 THEN "direct" ELSE "absent"]
    /\ exitCode = [p \in Procs |-> 0]
    /\ stopCh = [p \in Procs |-> FALSE]
    /\ migrationReady = [p \in Procs |-> FALSE]
    /\ \E before \in {{}, {ElectionChecker}} :
         healthz = [p \in Procs |-> IF p = 1 THEN before ELSE {}]
    /\ mux = [p \in Procs |-> {}]
    /\ election = [p \in Procs |-> [l \in Locks |-> "none"]]
    /\ leadCount = [p \in Procs |-> [l \in Locks |-> 0]]
    /\ \E controllers \in SUBSET NewControllerInitializers :
         /\ cfg.disabled \subseteq controllers
         /\ epoch = [p \in Procs |-> [l \in Locks |->
                IF p = 1 /\ l = "main"
                THEN [IdleEpoch EXCEPT !.phase = "loop",
                                       !.initializers = controllers,
                                       !.pending = controllers]
                ELSE IdleEpoch]]
    /\ call = NoCall

SpecOneResult == InitOneResult /\ [][NextSC]_vars

\* The triple every initializer of the call returns.
ReturnedResult == CHOOSE r \in cfg.initResults : TRUE

\* The handle of the returned triple is non-nil, health-checkable and returns
\* a non-nil checker.
HasOwnProbe(ctrl) == ~ctrl.isNil /\ ctrl.hc = "checker"

\* C23: every controller started in the call has exactly one check accumulated
\* under its name, the controller's own probe exactly when the handle its
\* initializer returned is non-nil, health-checkable and returns a non-nil
\* checker, and the ping check in every other case, whatever the handle's
\* debug capability; after a nil return the same check is registered.
C23_ProbeOrPing ==
    \A p \in Procs, l \in Locks :
        \A name \in epoch[p][l].started :
            LET kind == IF HasOwnProbe(ReturnedResult.ctrl) THEN "real" ELSE "ping"
                expected == {[name |-> name, kind |-> kind]}
            IN  /\ {c \in epoch[p][l].checks : c.name = name} = expected
                /\ (epoch[p][l].phase = "screturned" /\ epoch[p][l].result = NoError)
                      => ChecksNamed(p, name) = expected

\* C23 witness: the call returned nil with the own probe of a controller that
\* is not debuggable registered.
C23_Witness ==
    \E p \in Procs, l \in Locks :
        /\ epoch[p][l].phase = "screturned"
        /\ epoch[p][l].result = NoError
        /\ ReturnedResult.ctrl.dbg = "absent"
        /\ \E c \in ControllerChecksRegistered(p) : c.kind = "real"

\* The returned triple leads to a mount: no error, started, and a non-nil
\* handle that is debuggable with a non-nil debug handler.
HasDebugHandler(r) ==
    /\ r.err = NoError
    /\ r.started
    /\ ~r.ctrl.isNil
    /\ r.ctrl.dbg = "handler"

\* C24: the names with a debug endpoint mounted are the controllers started so
\* far when secure serving is configured and the handle returned is non-nil and
\* debuggable with a non-nil debug handler, and none in every other case; a
\* mounted name is an enabled controller of the registry, and a step changes
\* the mux only by mounting the controller whose initializer returns.
C24_DebugEndpointMounted ==
    /\ [](\A p \in Procs :
            /\ mux[p] = IF cfg.secureServing /\ HasDebugHandler(ReturnedResult)
                        THEN StartedIn(p) ELSE {}
            /\ \A l \in Locks :
                  epoch[p][l].phase # "idle" =>
                      mux[p] \subseteq epoch[p][l].initializers \ cfg.disabled)
    /\ [][\A p \in Procs :
            mux'[p] # mux[p] =>
                \E l \in Locks :
                    /\ epoch[p][l].phase = "running"
                    /\ mux'[p] = mux[p] \cup {epoch[p][l].cur}]_vars

\* C24 witness: with secure serving configured and a disabled controller in
\* the registry, the call returned nil with two debug endpoints mounted, of
\* controllers that are not health-checkable.
C24_Witness ==
    \E p \in Procs, l \in Locks :
        /\ epoch[p][l].phase = "screturned"
        /\ epoch[p][l].result = NoError
        /\ cfg.disabled # {}
        /\ ReturnedResult.ctrl.hc = "absent"
        /\ Cardinality(mux[p]) = 2

\* StartControllers has returned an error in the epoch of lock l of process p.
StartControllersFailed(p, l) ==
    /\ epoch[p][l].phase = "screturned"
    /\ epoch[p][l].result # NoError

\* C25: the step in which StartControllers returns an error leaves the checks
\* of healthzHandler as they were, and after an error return the handler
\* holds no check of a controller, whatever checks the call had accumulated.
C25_ErrorReturnRegistersNothing ==
    /\ [][\A p \in Procs, l \in Locks :
            StartControllersFailed(p, l)' => healthz'[p] = healthz[p]]_vars
    /\ [](\A p \in Procs, l \in Locks :
            StartControllersFailed(p, l) => ControllerChecksRegistered(p) = {})

\* C25 witness: StartControllers returned an error after two controllers had
\* started and their checks were accumulated, with the handler holding the
\* leader-election check from before the call.
C25_Witness ==
    \E p \in Procs, l \in Locks :
        /\ StartControllersFailed(p, l)
        /\ Cardinality(epoch[p][l].checks) = 2
        /\ healthz[p] = {ElectionChecker}

\* Both initializersFuncs of process p were evaluated with leader migration
\* enabled.
BothInitializersFuncsEvaluated(p) ==
    /\ LeaderMigratorEnabled
    /\ epoch[p]["main"].phase # "idle"
    /\ epoch[p]["migration"].phase # "idle"

\* The registry entries in one of the two filtered maps of process p.
UnderSomeLock(p) ==
    epoch[p]["main"].initializers \cup epoch[p]["migration"].initializers

\* C26 (the claim as stated): with leader migration enabled the union of the
\* two filtered initializer maps is the whole registry, for every
\* classification function.
C26_EveryControllerUnderALock ==
    \A p \in Procs :
        BothInitializersFuncsEvaluated(p) =>
            UnderSomeLock(p) = NewControllerInitializers

\* C26 (amended): with leader migration enabled the union of the two filtered
\* initializer maps is the set of registry entries the classification function
\* does not tag ControllerUnowned; an entry tagged ControllerUnowned is in
\* neither map, and the union is the whole registry exactly when no entry is
\* tagged so.
C26_EveryOwnedControllerUnderALock ==
    \A p \in Procs :
        BothInitializersFuncsEvaluated(p) =>
            LET unowned == {name \in NewControllerInitializers :
                               cfg.filter[name] \notin
                                   {ControllerNonMigrated, ControllerMigrated}}
            IN  /\ UnderSomeLock(p) = NewControllerInitializers \ unowned
                /\ UnderSomeLock(p) = NewControllerInitializers <=> unowned = {}

\* C26 witness: both maps were evaluated and are non-empty, and one registry
\* entry is in neither.
C26_Witness ==
    \E p \in Procs :
        /\ BothInitializersFuncsEvaluated(p)
        /\ epoch[p]["main"].initializers # {}
        /\ epoch[p]["migration"].initializers # {}
        /\ Cardinality(NewControllerInitializers \ UnderSomeLock(p)) = 1

=============================================================================
